---- MODULE Spec2Model ----
(***************************************************************************)
(* Strinova Discord Rich Presence (src/main.py): the match tracker, the    *)
(* region-to-pixel mapping, the presence payload and the main loop.        *)
(*                                                                         *)
(* Optional values (Python's "x | None") are sequences of length <= 1:     *)
(* None is << >> and a value v is << v >>.                                 *)
(* Time is counted in clock steps of 1/Res second since the epoch, so that *)
(* int() of a timestamp or of a difference of timestamps truncates.        *)
(***************************************************************************)
EXTENDS Integers, Sequences, FiniteSets, TLC

VARIABLES
    \* configuration, read once at startup
    streak_threshold,      \* MatchTracker._streak_threshold
    show_character,        \* display_options["show_character"]
    show_timer,            \* display_options["show_timer"]
    regions_cfg,           \* ScreenCapture.regions_cfg
    mon,                   \* ScreenCapture._monitor(): the primary monitor
    \* MatchTracker
    in_match,
    match_start_time,
    no_objective_streak,
    \* DiscordRPC
    rpc,
    connected,
    \* main()
    pc,                    \* the statement main() is at
    current_character,
    stop,                  \* the exception that ended the loop, "none" while running
    \* environment
    now,                   \* time.time(), in clock steps
    \* what the current tick has done so far (reset at the top of each tick)
    payload,               \* the kwargs DiscordRPC.update built in this tick
    pub_result,            \* outcome of rpc.update(**kwargs) in this tick
    attempts,              \* discord.connect() calls in this tick
    publishes,             \* rpc.update(**kwargs) calls in this tick
    raised,                \* an Exception reached the handler of line 379
    tick_connected,        \* discord.connected at the top of this tick
    resumed,               \* the tick before this one ended with a connect() that succeeded
    after_error,           \* the publish of the tick before this one failed with an
                           \* error other than the invalid-session one
    built_after,           \* clear_pending when this tick's payload was built
    held_before,           \* << c >> once this tick's reading resolved no weapon, c being
                           \* current_character before the reading; << >> otherwise
    \* a second run of main(), fed the same captures, OCR results and clock
    run2,                  \* its [tracker, character, rpc, connected]
    \* observers
    ever_connected,        \* some discord.connect() has returned True
    inputs,                \* "live", or "missing" once captures fail or OCR reads no text
    displayed,             \* what the Discord client shows: the class of the last
                           \* payload rpc.update accepted
    clear_pending,         \* "no", or from the update() that ends a match until a
                           \* payload is built: "ended", "ended_with_character" (one
                           \* was cached), with "_earlier" once the tick is over
    disconnect_calls,      \* calls of discord.disconnect()
    \* MatchTracker driven directly: one entry per update() call
    sigLog,                \* has_objective passed to the call
    clockLog,              \* time.time() during the call
    inMatchLog,            \* in_match after the call
    startLog,              \* match_start_time after the call
    \* ScreenCapture.grab_region driven directly
    region,                \* the fractional region, in units of 1/Den
    bbox                   \* the bounding box handed to sct.grab

vars == << streak_threshold, show_character, show_timer, regions_cfg, mon,
           in_match, match_start_time, no_objective_streak, rpc, connected,
           pc, current_character, stop, now, payload, pub_result, attempts,
           publishes, raised, tick_connected, resumed, after_error, built_after,
           held_before, run2, ever_connected, inputs, displayed, clear_pending, disconnect_calls,
           sigLog, clockLog, inMatchLog, startLog, region, bbox >>

configVars  == << streak_threshold, show_character, show_timer, regions_cfg, mon >>
trackerVars == << in_match, match_start_time, no_objective_streak >>
discordVars == << rpc, connected >>
tickVars    == << payload, pub_result, attempts, publishes, raised, tick_connected, resumed,
                 held_before, after_error >>
logVars     == << sigLog, clockLog, inMatchLog, startLog >>
regionVars  == << region, bbox >>

---------------------------------------------------------------------------
\* Bounds of the model

MaxThreshold == 3      \* objective_verification_count ranges over 1..MaxThreshold
MaxClock     == 4      \* the main loop's clock stops advancing here
MaxLog       == 6      \* update() calls in a run of the tracker alone
MaxLogClock  == 4      \* the clock's last value in a run of the tracker alone
Res          == 2      \* clock steps per second
Den          == 4      \* region fractions are k/Den
MaxDim       == 3      \* monitor width and height range over 1..MaxDim

---------------------------------------------------------------------------
\* Python values

None == << >>
Some(v) == << v >>

\* int(n / d) for d > 0: Python's int() truncates toward zero
PyInt(n, d) == IF n >= 0 THEN n \div d ELSE -((-n) \div d)

\* bool(x) of an optional number: None and 0 are false
TruthyNum(x) == x # None /\ x[1] # 0

\* bool(x) of an optional string: None and "" are false
TruthyStr(x) == x # None /\ x[1] # ""

---------------------------------------------------------------------------
\* MatchTracker

\* MatchTracker.__init__: the state after construction
TrackerInit == [in_match |-> FALSE, match_start_time |-> None, no_objective_streak |-> 0]

Tracker == [in_match |-> in_match, match_start_time |-> match_start_time,
            no_objective_streak |-> no_objective_streak]

\* A slip: the streak must exceed the threshold
update_gt(t, has_objective, threshold, clock) ==
    IF has_objective /\ ~t.in_match
    THEN [in_match |-> TRUE, match_start_time |-> Some(clock), no_objective_streak |-> 0]
    ELSE IF has_objective /\ t.in_match
    THEN [t EXCEPT !.no_objective_streak = 0]
    ELSE IF ~has_objective /\ t.in_match
    THEN IF t.no_objective_streak + 1 > threshold
         THEN [in_match |-> FALSE, match_start_time |-> None, no_objective_streak |-> 0]
         ELSE [t EXCEPT !.no_objective_streak = t.no_objective_streak + 1]
    ELSE t

\* A slip: every objective-present signal restamps the start time
update_restamp(t, has_objective, threshold, clock) ==
    IF has_objective
    THEN [in_match |-> TRUE, match_start_time |-> Some(clock), no_objective_streak |-> 0]
    ELSE IF ~has_objective /\ t.in_match
    THEN IF t.no_objective_streak + 1 >= threshold
         THEN [in_match |-> FALSE, match_start_time |-> None, no_objective_streak |-> 0]
         ELSE [t EXCEPT !.no_objective_streak = t.no_objective_streak + 1]
    ELSE t

\* A slip: the start time survives the end of the match
update_keepstart(t, has_objective, threshold, clock) ==
    IF has_objective /\ ~t.in_match
    THEN [in_match |-> TRUE, match_start_time |-> Some(clock), no_objective_streak |-> 0]
    ELSE IF has_objective /\ t.in_match
    THEN [t EXCEPT !.no_objective_streak = 0]
    ELSE IF ~has_objective /\ t.in_match
    THEN IF t.no_objective_streak + 1 >= threshold
         THEN [t EXCEPT !.in_match = FALSE, !.no_objective_streak = 0]
         ELSE [t EXCEPT !.no_objective_streak = t.no_objective_streak + 1]
    ELSE t

\* MatchTracker.update(match_info) with has_objective = match_info.get("has_objective"),
\* threshold = self._streak_threshold and clock = time.time()
update(t, has_objective, threshold, clock) ==
    IF has_objective /\ ~t.in_match
    THEN [in_match |-> TRUE, match_start_time |-> Some(clock), no_objective_streak |-> 0]
    ELSE IF has_objective /\ t.in_match
    THEN [t EXCEPT !.no_objective_streak = 0]
    ELSE IF ~has_objective /\ t.in_match
    THEN IF t.no_objective_streak + 1 >= threshold
         THEN [in_match |-> FALSE, match_start_time |-> None, no_objective_streak |-> 0]
         ELSE [t EXCEPT !.no_objective_streak = t.no_objective_streak + 1]
    ELSE t

\* A slip: the difference is taken the wrong way round
elapsed_seconds_neg(t, clock) ==
    IF t.match_start_time = None THEN None
    ELSE Some(PyInt(t.match_start_time[1] - clock, Res))

\* MatchTracker.elapsed_seconds with clock = time.time()
elapsed_seconds(t, clock) ==
    IF t.match_start_time = None THEN None
    ELSE Some(PyInt(clock - t.match_start_time[1], Res))

\* MatchTracker.start_timestamp
start_timestamp(t) == t.match_start_time

---------------------------------------------------------------------------
\* ScreenCapture.grab_region
\*
\* A fraction is k/Den with k an integer; the monitor is a record
\* [left, top, width, height] of integers. For the fractions and dimensions
\* of this model the float product region[..] * w is exact enough that int()
\* of it equals the truncation of the exact quotient k * w / Den.

Offsets == {-1, 0, 2}

Fractions == 0..Den

Regions == [left : Fractions, top : Fractions, right : Fractions, bottom : Fractions]

Monitors == [left : Offsets, top : Offsets, width : 1..MaxDim, height : 1..MaxDim]

\* A slip: the right and bottom edges forget the monitor's offset
grab_region_nooffset(r, m) ==
    LET left   == PyInt(r.left * m.width, Den) + m.left
        top    == PyInt(r.top * m.height, Den) + m.top
        right  == PyInt(r.right * m.width, Den)
        bottom == PyInt(r.bottom * m.height, Den)
    IN  [left |-> left, top |-> top, width |-> right - left, height |-> bottom - top]

\* The bbox of grab_region(region_key) for region r = regions_cfg[region_key]
\* and monitor m = self._monitor()
grab_region(r, m) ==
    LET left   == PyInt(r.left * m.width, Den) + m.left
        top    == PyInt(r.top * m.height, Den) + m.top
        right  == PyInt(r.right * m.width, Den) + m.left
        bottom == PyInt(r.bottom * m.height, Den) + m.top
    IN  [left |-> left, top |-> top, width |-> right - left, height |-> bottom - top]

\* sct.grab(bbox) has pixels to return only for a rectangle of positive size
Degenerate(b) == b.width <= 0 \/ b.height <= 0

---------------------------------------------------------------------------
\* OCRReader

Upper == "ABCDEFGHIJKLMNOPQRSTUVWXYZ"
Lower == "abcdefghijklmnopqrstuvwxyz"

Char(s, i) == SubSeq(s, i, i)

\* str.lower() of one character
LowerChar(c) ==
    IF \E i \in 1..Len(Upper) : Char(Upper, i) = c
    THEN Char(Lower, CHOOSE i \in 1..Len(Upper) : Char(Upper, i) = c)
    ELSE c

RECURSIVE lower(_)
\* str.lower()
lower(s) == IF Len(s) = 0 THEN "" ELSE LowerChar(Char(s, 1)) \o lower(SubSeq(s, 2, Len(s)))

IsSpace(c) == c \in {" ", "\n", "\t"}

RECURSIVE lstrip(_)
lstrip(s) == IF Len(s) > 0 /\ IsSpace(Char(s, 1)) THEN lstrip(SubSeq(s, 2, Len(s))) ELSE s

RECURSIVE rstrip(_)
rstrip(s) == IF Len(s) > 0 /\ IsSpace(Char(s, Len(s))) THEN rstrip(SubSeq(s, 1, Len(s) - 1)) ELSE s

\* str.strip()
strip(s) == rstrip(lstrip(s))

\* sub in s
Contains(sub, s) == \E i \in 1..(Len(s) - Len(sub) + 1) : SubSeq(s, i, i + Len(sub) - 1) = sub

\* weapon_names = list(weapon_map.keys()), in the order of the JSON file
weapon_names == << "Vector", "Finka", "Nobunaga" >>

\* weapon_map: character_weapon_map.json; an entry may hold an empty name
weapon_map == [w \in {"Vector", "Finka", "Nobunaga"} |->
                 IF w = "Vector" THEN "Michele" ELSE IF w = "Finka" THEN "Kokona" ELSE ""]

Characters == {"Michele", "Kokona"}

\* character_icons: character_icons.json; Kokona has no icon configured
character_icons == [c \in Characters |-> IF c = "Michele" THEN Some("michele") ELSE None]

\* What pytesseract.image_to_string returns for the weapon-name crop
WeaponRaw == {"", " \n", "Vector\n", "VECTOR\n", "Vectar\n", "Finka\n", "Nobunaga\n", "Loading\n"}

\* What pytesseract.image_to_string returns for the match-info crop
MatchRaw == {"", "Objective\n1:45\n", "OBJECTIV 12:05\n", "Victory\n"}

\* difflib.SequenceMatcher(None, name, text).ratio() in thousandths, for the
\* texts above that match no name exactly
Ratio(name, text) ==
    IF text = "Vectar"  /\ name = "Vector"   THEN 833
    ELSE IF text = "Vectar"  /\ name = "Finka"    THEN 181
    ELSE IF text = "Vectar"  /\ name = "Nobunaga" THEN 142
    ELSE IF text = "Loading" /\ name = "Vector"   THEN 153
    ELSE IF text = "Loading" /\ name = "Finka"    THEN 333
    ELSE IF text = "Loading" /\ name = "Nobunaga" THEN 400
    ELSE IF text = name THEN 1000 ELSE 0

\* ocr_cfg["confidence_threshold"], in thousandths
confidence == 600

\* get_close_matches(text, weapon_names, n=1, cutoff): the best name at or above the cutoff
get_close_matches(text, cutoff) ==
    LET ok == {i \in 1..Len(weapon_names) : Ratio(weapon_names[i], text) >= cutoff}
    IN  IF ok = {} THEN None
        ELSE Some(weapon_names[CHOOSE i \in ok :
                    \A j \in ok : Ratio(weapon_names[i], text) >= Ratio(weapon_names[j], text)])

\* OCRReader.read_text: the engine's output, stripped
read_text(raw) == strip(raw)

\* OCRReader.read_weapon_name for an image on which the engine reads raw
read_weapon_name(raw) ==
    LET raw_text == read_text(raw)
        exact    == {i \in 1..Len(weapon_names) : lower(weapon_names[i]) = lower(raw_text)}
    IN  IF raw_text = "" THEN None
        ELSE IF exact # {} THEN Some(weapon_names[CHOOSE i \in exact : \A j \in exact : i <= j])
        ELSE get_close_matches(raw_text, confidence)

\* OCRReader.read_match_info(...)["has_objective"] for an image on which the
\* engine reads raw; timer_text is computed by the code and read by no caller
read_match_info(raw) ==
    LET text_lower == lower(strip(raw))
    IN  Contains("objective", text_lower) \/ Contains("objectiv", text_lower)

\* The two readers on each text the engine can return
WeaponNameOf == [raw \in WeaponRaw |-> read_weapon_name(raw)]

HasObjectiveOf == [raw \in MatchRaw |-> read_match_info(raw)]

---------------------------------------------------------------------------
\* DiscordRPC

small_image == "strinova_logo"
large_text  == "Strinova"

NoPayload == << >>

\* A slip: the timer is shown whatever show_timer says
build_kwargs_anytimer(character_name, match_start_ts, showc, showt) ==
    LET named == TruthyStr(character_name) /\ showc
        icon  == IF named THEN character_icons[character_name[1]] ELSE None
    IN  [large_image |-> IF named /\ icon # None THEN icon ELSE Some(small_image),
         large_text  |-> IF named /\ icon # None THEN character_name ELSE Some(large_text),
         small_image |-> IF named THEN Some(small_image) ELSE None,
         small_text  |-> IF named THEN Some(large_text) ELSE None,
         details     |-> IF named THEN Some("Playing as " \o character_name[1])
                         ELSE Some("In Game"),
         start |-> IF TruthyNum(match_start_ts)
                   THEN Some(PyInt(match_start_ts[1], Res)) ELSE None,
         state |-> IF TruthyNum(match_start_ts)
                   THEN Some("In Match") ELSE Some("In Menu")]

\* The kwargs DiscordRPC.update builds (lines 262-288) from its two arguments and
\* display_options; a key that is not set is None
build_kwargs(character_name, match_start_ts, showc, showt) ==
    LET base ==
          IF TruthyStr(character_name) /\ showc
          THEN [large_image |-> IF character_icons[character_name[1]] # None
                                THEN character_icons[character_name[1]]
                                ELSE Some(small_image),
                large_text  |-> IF character_icons[character_name[1]] # None
                                THEN character_name
                                ELSE Some(large_text),
                small_image |-> Some(small_image),
                small_text  |-> Some(large_text),
                details     |-> Some("Playing as " \o character_name[1])]
          ELSE [large_image |-> Some(small_image),
                large_text  |-> Some(large_text),
                small_image |-> None,
                small_text  |-> None,
                details     |-> Some("In Game")]
    IN  [large_image |-> base.large_image, large_text |-> base.large_text,
         small_image |-> base.small_image, small_text |-> base.small_text,
         details |-> base.details,
         start |-> IF TruthyNum(match_start_ts) /\ showt
                   THEN Some(PyInt(match_start_ts[1], Res)) ELSE None,
         state |-> IF TruthyNum(match_start_ts) /\ showt
                   THEN Some("In Match") ELSE Some("In Menu")]

\* Generic branding: no character image or text, details "In Game"
Generic(p) ==
    /\ p.large_image = Some(small_image)
    /\ p.large_text = Some(large_text)
    /\ p.details = Some("In Game")

\* What a payload shows: generic branding with state "In Menu", or a match
presence_class(p) ==
    IF Generic(p) /\ p.state = Some("In Menu") THEN "generic_menu" ELSE "match"

ConnectOutcomes == {"ok", "refused", "no_client"}

\* DiscordRPC.connect() on d = [rpc, connected]: "ok" connects, "refused" is
\* rpc.connect() raising, "no_client" is Presence(client_id) raising
connect(d, outcome) ==
    IF outcome = "ok" THEN [rpc |-> Some("Presence"), connected |-> TRUE]
    ELSE IF outcome = "refused" THEN [rpc |-> Some("Presence"), connected |-> FALSE]
    ELSE [rpc |-> d.rpc, connected |-> FALSE]

Discord == [rpc |-> rpc, connected |-> connected]

\* A slip: only the missing handle is tested
update_returns_early_handle(conn, r) == r = None

\* Lines 259-260: if not self.connected or self.rpc is None: return
update_returns_early(conn, r) == ~conn \/ r = None

PublishOutcomes == {"ok", "InvalidID", "error"}

\* A slip: every failed rpc.update marks the connection unusable
after_publish_any(conn, outcome) == IF outcome = "ok" THEN conn ELSE FALSE

\* self.connected after rpc.update(**kwargs) ended with outcome (lines 290-296)
after_publish(conn, outcome) == IF outcome = "InvalidID" THEN FALSE ELSE conn

\* What the client shows after rpc.update(**p) ended with outcome: an accepted
\* payload replaces what was shown before
shown(before, p, outcome) == IF outcome = "ok" THEN presence_class(p) ELSE before

\* What the client can show after disconnect(): rpc.clear() removes the
\* presence unless it raises
cleared(d, before) == IF d.rpc # None THEN {"nothing", before} ELSE {before}

\* DiscordRPC.disconnect() on d = [rpc, connected]; clear() and close() may raise,
\* which is swallowed
disconnect(d) == IF d.rpc # None THEN [d EXCEPT !.connected = FALSE] ELSE d

---------------------------------------------------------------------------
\* main()

\* The primary monitor of the main loop's runs
MainMonitor == [left |-> 0, top |-> 0, width |-> 2, height |-> 2]

\* config.json "regions", a key that is absent being None: the weapon name in
\* the bottom-right quarter and the match info in the top half
RegionsGood ==
    [weapon_name |-> Some([left |-> Den \div 2, top |-> Den \div 2, right |-> Den, bottom |-> Den]),
     match_info  |-> Some([left |-> 0, top |-> 0, right |-> Den, bottom |-> Den - Den \div 2])]

\* config.json "regions" without the weapon_name key
RegionsNoWeapon == [RegionsGood EXCEPT !.weapon_name = None]

\* config.json "regions" with a match_info region, top < bottom, whose top and
\* bottom fall into the same pixel row of the monitor
RegionsThin ==
    [RegionsGood EXCEPT !.match_info = Some([left |-> 0, top |-> 0, right |-> Den, bottom |-> 1])]

RegionConfigs == {RegionsGood, RegionsNoWeapon, RegionsThin}

\* The region has a definition that resolves to a rectangle of positive size
RegionUsable(cfg, key, m) ==
    /\ cfg[key] # None
    /\ ~Degenerate(grab_region(cfg[key][1], m))

GeometryValid == RegionUsable(regions_cfg, "weapon_name", mon)
              /\ RegionUsable(regions_cfg, "match_info", mon)

\* What the OCR engine can return for capture.grab_region(key): nothing when
\* regions_cfg[key] raises KeyError, no text for a rectangle without pixels
\* (when sct.grab does not raise), any of raws otherwise
Readings(cfg, key, m, raws) ==
    IF cfg[key] = None THEN {}
    ELSE IF Degenerate(grab_region(cfg[key][1], m)) THEN {""}
    ELSE raws

\* The texts the OCR engine can return now: no text once the inputs are missing
Available(raws) == IF inputs = "missing" THEN raws \cap {""} ELSE raws

\* A slip: a tick without a weapon reading forgets the character
resolve_character_forget(cur, raw) ==
    LET weapon_name == WeaponNameOf[raw]
    IN  IF weapon_name # None
        THEN IF weapon_map[weapon_name[1]] # "" /\ Some(weapon_map[weapon_name[1]]) # cur
             THEN Some(weapon_map[weapon_name[1]])
             ELSE cur
        ELSE None

\* Lines 351-357: current_character after the OCR engine read raw
resolve_character(cur, raw) ==
    LET weapon_name == WeaponNameOf[raw]
    IN  IF weapon_name # None
        THEN IF weapon_map[weapon_name[1]] # "" /\ Some(weapon_map[weapon_name[1]]) # cur
             THEN Some(weapon_map[weapon_name[1]])
             ELSE cur
        ELSE cur

\* A slip: the character is kept when the match has ended
clear_character_keep(inm, cur) == cur

\* Lines 365-366: current_character after the reset
clear_character(inm, cur) == IF ~inm THEN None ELSE cur

\* A slip: the handler lets the exception end the loop
tick_except_fatal == "finally"

\* Lines 379-382: where main() continues after an Exception inside a tick
tick_except == "sleep"

\* A slip: the reconnect is never tried
reconnect_needed_never(conn) == FALSE

\* Line 375: whether the tick calls discord.connect()
reconnect_needed(conn) == ~conn

TickPcs == {"weapon", "match", "clear", "publish", "reconnect", "sleep"}

\* clear_pending at the top of the next tick: the match ended in an earlier one
Earlier(cp) ==
    IF cp = "ended" THEN "ended_earlier"
    ELSE IF cp = "ended_with_character" THEN "ended_with_character_earlier"
    ELSE cp

\* The top of a tick: nothing done yet
BeginTick(conn, res, err) ==
    /\ payload' = NoPayload
    /\ pub_result' = "none"
    /\ attempts' = 0
    /\ publishes' = 0
    /\ raised' = FALSE
    /\ tick_connected' = conn
    /\ resumed' = res
    /\ after_error' = err
    /\ held_before' = << >>
    /\ built_after' = "no"

\* Lines 379-380: an Exception raised inside the tick reaches the handler
TickRaises ==
    /\ pc' = tick_except
    /\ raised' = TRUE
    /\ UNCHANGED << payload, pub_result, attempts, publishes, tick_connected, resumed,
                    built_after, held_before, after_error >>

ConfigValues ==
    /\ streak_threshold \in 1..MaxThreshold
    /\ show_character \in BOOLEAN
    /\ show_timer \in BOOLEAN

\* The state after construction (lines 330-333), before the first connect()
InitState ==
    /\ in_match = TrackerInit.in_match
    /\ match_start_time = TrackerInit.match_start_time
    /\ no_objective_streak = TrackerInit.no_objective_streak
    /\ rpc = None
    /\ connected = FALSE
    /\ current_character = None
    /\ stop = "none"
    /\ now = 1      \* time.time() is positive: at least one step past the epoch
    /\ payload = NoPayload
    /\ pub_result = "none"
    /\ attempts = 0
    /\ publishes = 0
    /\ raised = FALSE
    /\ tick_connected = FALSE
    /\ resumed = FALSE
    /\ after_error = FALSE
    /\ held_before = << >>
    /\ ever_connected = FALSE
    /\ run2 = [tracker |-> TrackerInit, character |-> None, rpc |-> None,
               connected |-> FALSE]
    /\ inputs = "live"
    /\ displayed = "nothing"
    /\ built_after = "no"
    /\ clear_pending = "no"
    /\ disconnect_calls = 0
    /\ sigLog = << >>
    /\ clockLog = << >>
    /\ inMatchLog = << >>
    /\ startLog = << >>
    /\ bbox = None

Init ==
    /\ ConfigValues
    /\ regions_cfg \in RegionConfigs
    /\ mon = MainMonitor
    /\ region = [left |-> 0, top |-> 0, right |-> Den, bottom |-> Den]
    /\ pc = "connect"
    /\ InitState

\* A slip: the tick loop is entered after the first attempt, whatever it returned
startup_next_once(ok) == "weapon"

\* Line 336: the loop condition, on what connect() returned: the tick loop, or
\* time.sleep(10) and another attempt
startup_next(ok) == IF ok THEN "weapon" ELSE "retry_sleep"

\* Line 336: while not discord.connect()
StartupConnect ==
    /\ pc = "connect"
    /\ \E o \in ConnectOutcomes :
         /\ rpc' = connect(Discord, o).rpc
         /\ connected' = connect(Discord, o).connected
    /\ ever_connected' = (ever_connected \/ connected')
    /\ pc' = startup_next(connected')
    /\ IF pc' = "weapon"
       THEN BeginTick(connected', FALSE, FALSE)
       ELSE UNCHANGED << tickVars, built_after >>
    /\ UNCHANGED << configVars, run2, inputs, displayed, trackerVars, current_character, stop, now,
                    clear_pending, disconnect_calls, logVars, regionVars >>

\* Lines 337-338: time.sleep(10), then the next attempt
RetrySleep ==
    /\ pc = "retry_sleep"
    /\ pc' = "connect"
    /\ UNCHANGED << configVars, run2, ever_connected, inputs, displayed, trackerVars, discordVars, current_character, stop, now,
                    tickVars, built_after, clear_pending, disconnect_calls, logVars,
                    regionVars >>

\* Lines 350-357: capture the weapon-name region, read it, look the character up
ResolveWeapon ==
    /\ pc = "weapon"
    /\ \/ /\ TickRaises
          /\ UNCHANGED current_character
       \/ \E raw \in Readings(regions_cfg, "weapon_name", mon, Available(WeaponRaw)) :
            /\ current_character' = resolve_character(current_character, raw)
            /\ held_before' = IF WeaponNameOf[raw] = None THEN << current_character >>
                                                          ELSE << >>
            /\ pc' = "match"
            /\ UNCHANGED << payload, pub_result, attempts, publishes, raised,
                            tick_connected, resumed, built_after, after_error >>
    /\ UNCHANGED << configVars, run2, ever_connected, inputs, displayed, trackerVars, discordVars, stop, now,
                    clear_pending, disconnect_calls, logVars, regionVars >>

\* Lines 360-362: capture the match-info region, read it, tracker.update(match_info)
TrackMatch ==
    /\ pc = "match"
    /\ \/ /\ TickRaises
          /\ UNCHANGED << trackerVars, clear_pending >>
       \/ \E raw \in Readings(regions_cfg, "match_info", mon, Available(MatchRaw)) :
            LET t == update(Tracker, HasObjectiveOf[raw], streak_threshold, now)
            IN  /\ in_match' = t.in_match
                /\ match_start_time' = t.match_start_time
                /\ no_objective_streak' = t.no_objective_streak
                /\ clear_pending' =
                     IF in_match /\ ~t.in_match
                     THEN (IF current_character # None THEN "ended_with_character" ELSE "ended")
                     ELSE clear_pending
                /\ pc' = "clear"
                /\ UNCHANGED << tickVars, built_after >>
    /\ UNCHANGED << configVars, run2, ever_connected, inputs, displayed, discordVars, current_character, stop, now,
                    disconnect_calls, logVars, regionVars >>

\* Lines 365-366: reset the character when not in a match
ClearCharacter ==
    /\ pc = "clear"
    /\ current_character' = clear_character(in_match, current_character)
    /\ pc' = "publish"
    /\ UNCHANGED << configVars, run2, ever_connected, inputs, displayed, trackerVars, discordVars, stop, now, tickVars, built_after,
                    clear_pending, disconnect_calls, logVars, regionVars >>

\* Lines 369-372: discord.update(current_character, tracker.start_timestamp)
Publish ==
    /\ pc = "publish"
    /\ pc' = "reconnect"
    /\ IF update_returns_early(connected, rpc)
       THEN UNCHANGED << connected, payload, pub_result, publishes, built_after, clear_pending,
                         displayed >>
       ELSE /\ payload' = Some(build_kwargs(current_character, start_timestamp(Tracker),
                                            show_character, show_timer))
            /\ built_after' = clear_pending
            /\ clear_pending' = "no"
            /\ publishes' = publishes + 1
            /\ \E o \in PublishOutcomes :
                 /\ pub_result' = o
                 /\ connected' = after_publish(connected, o)
                 /\ displayed' = shown(displayed, payload'[1], o)
    /\ UNCHANGED << configVars, run2, ever_connected, inputs, trackerVars, rpc, current_character, stop, now,
                    attempts, raised, tick_connected, resumed, held_before, after_error,
                    disconnect_calls, logVars, regionVars >>

\* Lines 375-377: one discord.connect() when the connection is marked unusable
Reconnect ==
    /\ pc = "reconnect"
    /\ pc' = "sleep"
    /\ IF reconnect_needed(connected)
       THEN /\ \E o \in ConnectOutcomes :
                 /\ rpc' = connect(Discord, o).rpc
                 /\ connected' = connect(Discord, o).connected
            /\ attempts' = attempts + 1
            /\ ever_connected' = (ever_connected \/ connected')
       ELSE UNCHANGED << discordVars, attempts, ever_connected >>
    /\ UNCHANGED << configVars, run2, inputs, displayed, trackerVars, current_character, stop, now, payload,
                    pub_result, publishes, raised, tick_connected, resumed, after_error, built_after,
                    held_before, clear_pending, disconnect_calls, logVars,
                    regionVars >>

\* Line 382: time.sleep(interval), then the next tick
Sleep ==
    /\ pc = "sleep"
    /\ pc' = "weapon"
    /\ BeginTick(connected, attempts = 1 /\ connected, pub_result = "error")
    /\ clear_pending' = Earlier(clear_pending)
    /\ UNCHANGED << configVars, run2, ever_connected, inputs, displayed, trackerVars, discordVars, current_character, stop, now,
                    disconnect_calls, logVars, regionVars >>

\* Time passes between any two statements; the clock never goes backwards
Tock ==
    /\ pc \in TickPcs \cup {"connect", "retry_sleep"}
    /\ now < MaxClock
    /\ now' = now + 1
    /\ UNCHANGED << configVars, run2, ever_connected, inputs, displayed, trackerVars, discordVars, pc, current_character, stop,
                    tickVars, built_after, clear_pending, disconnect_calls, logVars,
                    regionVars >>

StopSignals == {"KeyboardInterrupt", "SystemExit"}

\* Where main() continues when a stop signal is raised at statement at: the
\* try of line 346 covers the tick loop only, and the except Exception of line
\* 379 catches neither signal, so lines 384-387 run for the loop and nothing
\* runs for the startup retry loop of lines 336-338
interrupted_at(at) == IF at \in {"connect", "retry_sleep"} THEN "done" ELSE "finally"

\* The operator's interrupt, or another BaseException that is no Exception,
\* raised between two of the statements above
Interrupt ==
    /\ pc \in TickPcs \cup {"connect", "retry_sleep"}
    /\ \E sig \in StopSignals : stop' = sig
    /\ pc' = interrupted_at(pc)
    /\ UNCHANGED << configVars, run2, ever_connected, inputs, displayed, trackerVars, discordVars, current_character, now,
                    tickVars, built_after, clear_pending, disconnect_calls, logVars,
                    regionVars >>

\* Line 387: finally: discord.disconnect()
Disconnect ==
    /\ pc = "finally"
    /\ pc' = "done"
    /\ rpc' = disconnect(Discord).rpc
    /\ connected' = disconnect(Discord).connected
    /\ disconnect_calls' = disconnect_calls + 1
    /\ displayed' \in cleared(Discord, displayed)
    /\ UNCHANGED << configVars, run2, ever_connected, inputs, trackerVars, current_character, stop, now,
                    tickVars, built_after, clear_pending, logVars, regionVars >>

Next ==
    \/ StartupConnect
    \/ RetrySleep
    \/ ResolveWeapon
    \/ TrackMatch
    \/ ClearCharacter
    \/ Publish
    \/ Reconnect
    \/ Sleep
    \/ Tock
    \/ Interrupt
    \/ Disconnect

Spec == Init /\ [][Next]_vars

---------------------------------------------------------------------------
\* The main loop left running: no stop signal arrives, and from some tick on
\* the inputs may be missing for good

InitLive ==
    /\ streak_threshold \in 1..MaxThreshold
    /\ show_character = TRUE
    /\ show_timer = TRUE
    /\ regions_cfg = RegionsGood
    /\ mon = MainMonitor
    /\ region = [left |-> 0, top |-> 0, right |-> Den, bottom |-> Den]
    /\ pc = "connect"
    /\ InitState

\* Between two ticks the screen stops yielding anything: from here on every
\* capture raises or every OCR call returns no text
InputsGone ==
    /\ pc = "sleep"
    /\ inputs = "live"
    /\ inputs' = "missing"
    /\ UNCHANGED << configVars, run2, ever_connected, displayed, trackerVars, discordVars, pc, current_character,
                    stop, now, tickVars, built_after, clear_pending, disconnect_calls,
                    logVars, regionVars >>

\* One statement of main(): the startup loop or the tick loop moves on
Step ==
    \/ StartupConnect
    \/ RetrySleep
    \/ ResolveWeapon
    \/ TrackMatch
    \/ ClearCharacter
    \/ Publish
    \/ Reconnect
    \/ Sleep

NextLive ==
    \/ Step
    \/ Tock
    \/ InputsGone

\* main() is a single thread that is never blocked for good: time.sleep
\* returns and every call of the loop returns or raises, so the next statement
\* is always executed eventually
SpecLive == InitLive /\ [][NextLive]_vars /\ WF_vars(Step)

---------------------------------------------------------------------------
\* Two runs of main() side by side, fed the same captures, OCR results and
\* clock readings, each with transport outcomes of its own

\* The first run: the state of main() as a record
Run1 == [tracker |-> Tracker, character |-> current_character, rpc |-> rpc,
         connected |-> connected]

\* A slip: a tick that starts with the connection unusable skips the tracking
tick_gated(s, w, m, threshold, clock, po, co) ==
    IF ~s.connected
    THEN [s EXCEPT !.rpc = connect([rpc |-> s.rpc, connected |-> s.connected], co).rpc,
                   !.connected = connect([rpc |-> s.rpc, connected |-> s.connected], co).connected]
    ELSE IF w = None THEN s
    ELSE IF m = None THEN [s EXCEPT !.character = resolve_character(s.character, w[1])]
    ELSE LET t == update(s.tracker, HasObjectiveOf[m[1]], threshold, clock)
             d == [rpc |-> s.rpc, connected |-> after_publish(s.connected, po)]
             e == IF reconnect_needed(d.connected) THEN connect(d, co) ELSE d
         IN  [tracker |-> t,
              character |-> clear_character(t.in_match, resolve_character(s.character, w[1])),
              rpc |-> e.rpc, connected |-> e.connected]

\* One whole tick (lines 348-380) on s = [tracker, character, rpc, connected]:
\* w and m are the texts read from the two regions, None when the capture or
\* the OCR raised, clock is time.time() at tracker.update, po the outcome of
\* rpc.update if it is called and co that of connect() if it is called
tick(s, w, m, threshold, clock, po, co) ==
    IF w = None THEN s
    ELSE IF m = None THEN [s EXCEPT !.character = resolve_character(s.character, w[1])]
    ELSE LET t == update(s.tracker, HasObjectiveOf[m[1]], threshold, clock)
             d == [rpc |-> s.rpc,
                   connected |-> IF update_returns_early(s.connected, s.rpc)
                                 THEN s.connected
                                 ELSE after_publish(s.connected, po)]
             e == IF reconnect_needed(d.connected) THEN connect(d, co) ELSE d
         IN  [tracker |-> t,
              character |-> clear_character(t.in_match, resolve_character(s.character, w[1])),
              rpc |-> e.rpc, connected |-> e.connected]

InitPair ==
    /\ streak_threshold \in 1..MaxThreshold
    /\ show_character = TRUE
    /\ show_timer = TRUE
    /\ regions_cfg = RegionsGood
    /\ mon = MainMonitor
    /\ region = [left |-> 0, top |-> 0, right |-> Den, bottom |-> Den]
    /\ pc = "pair_connect"
    /\ InitState

\* Lines 336-338 in both runs: a run that is not connected makes an attempt;
\* the tick loops start once both are connected
StartupPair ==
    /\ pc = "pair_connect"
    /\ \E o1, o2 \in ConnectOutcomes :
         LET d1 == IF connected THEN Discord ELSE connect(Discord, o1)
             d2 == IF run2.connected THEN [rpc |-> run2.rpc, connected |-> run2.connected]
                   ELSE connect([rpc |-> run2.rpc, connected |-> run2.connected], o2)
         IN  /\ rpc' = d1.rpc
             /\ connected' = d1.connected
             /\ run2' = [run2 EXCEPT !.rpc = d2.rpc, !.connected = d2.connected]
             /\ pc' = IF d1.connected /\ d2.connected THEN "pair" ELSE "pair_connect"
    /\ UNCHANGED << configVars, ever_connected, inputs, displayed, trackerVars,
                    current_character, stop, now, tickVars, built_after, clear_pending,
                    disconnect_calls, logVars, regionVars >>

\* The next tick of both runs: the same readings and clock, outcomes of
\* rpc.update and connect() of their own
TickPair ==
    /\ pc = "pair"
    /\ \E w \in {None} \cup {Some(x) : x \in Readings(regions_cfg, "weapon_name", mon, WeaponRaw)},
          m \in {None} \cup {Some(x) : x \in Readings(regions_cfg, "match_info", mon, MatchRaw)},
          dt \in 0..1 :
         /\ now + dt <= MaxClock
         /\ now' = now + dt
         /\ \E s1 \in { tick(Run1, w, m, streak_threshold, now + dt, po, co) :
                          po \in PublishOutcomes, co \in ConnectOutcomes } :
              /\ in_match' = s1.tracker.in_match
              /\ match_start_time' = s1.tracker.match_start_time
              /\ no_objective_streak' = s1.tracker.no_objective_streak
              /\ current_character' = s1.character
              /\ rpc' = s1.rpc
              /\ connected' = s1.connected
         /\ run2' \in { tick(run2, w, m, streak_threshold, now + dt, po, co) :
                          po \in PublishOutcomes, co \in ConnectOutcomes }
    /\ UNCHANGED << configVars, ever_connected, inputs, displayed, pc, stop, tickVars,
                    built_after, clear_pending, disconnect_calls, logVars, regionVars >>

NextPair ==
    \/ StartupPair
    \/ TickPair

SpecPair == InitPair /\ [][NextPair]_vars

---------------------------------------------------------------------------
\* MatchTracker alone, fed every sequence of signals

InitTracker ==
    /\ streak_threshold \in 1..MaxThreshold
    /\ show_character = TRUE
    /\ show_timer = TRUE
    /\ regions_cfg = RegionsGood
    /\ mon = MainMonitor
    /\ region = [left |-> 0, top |-> 0, right |-> Den, bottom |-> Den]
    /\ pc = "tracker"
    /\ InitState

\* One tracker.update({"has_objective": has_objective}) after dt clock steps
TrackerCall ==
    /\ pc = "tracker"
    /\ Len(sigLog) < MaxLog
    /\ \E has_objective \in BOOLEAN, dt \in 0..1 :
         /\ now + dt <= MaxLogClock
         /\ now' = now + dt
         /\ LET t == update(Tracker, has_objective, streak_threshold, now')
            IN  /\ in_match' = t.in_match
                /\ match_start_time' = t.match_start_time
                /\ no_objective_streak' = t.no_objective_streak
                /\ sigLog' = Append(sigLog, has_objective)
                /\ clockLog' = Append(clockLog, now')
                /\ inMatchLog' = Append(inMatchLog, t.in_match)
                /\ startLog' = Append(startLog, t.match_start_time)
    /\ UNCHANGED << configVars, run2, ever_connected, inputs, displayed, discordVars, pc, current_character, stop, tickVars,
                    built_after, clear_pending, disconnect_calls, regionVars >>

NextTracker == TrackerCall

SpecTracker == InitTracker /\ [][NextTracker]_vars

---------------------------------------------------------------------------
\* ScreenCapture.grab_region alone, on every region and monitor

InitRegion ==
    /\ streak_threshold = MaxThreshold
    /\ show_character = TRUE
    /\ show_timer = TRUE
    /\ regions_cfg = RegionsGood
    /\ mon \in Monitors
    /\ region \in Regions
    /\ pc = "region"
    /\ InitState

\* One computation of the bounding box of grab_region
GrabRegion ==
    /\ pc = "region"
    /\ bbox = None
    /\ bbox' = Some(grab_region(region, mon))
    /\ UNCHANGED << configVars, run2, ever_connected, inputs, displayed, trackerVars, discordVars, pc, current_character, stop, now,
                    tickVars, built_after, clear_pending, disconnect_calls, logVars, region >>

NextRegion == GrabRegion

SpecRegion == InitRegion /\ [][NextRegion]_vars

---------------------------------------------------------------------------
\* Claims

RECURSIVE AbsentRun(_, _)
\* The number of consecutive objective-absent signals ending with call i
AbsentRun(log, i) == IF i = 0 \/ log[i] THEN 0 ELSE 1 + AbsentRun(log, i - 1)

\* in_match before call i
InMatchBefore(i) == i > 1 /\ inMatchLog[i - 1]

\* C1: while in a match, a call of update ends the match if and only if it is
\* the N-th consecutive objective-absent call since the last objective-present
\* one, N the streak threshold; with N = 3, [present, present, absent, absent,
\* absent] ends the match exactly at the third absent and [present, absent,
\* absent, present] never ends it.
C1_EndsAtNthAbsent ==
    /\ \A i \in 1..Len(sigLog) :
         (InMatchBefore(i) /\ ~inMatchLog[i])
           <=> (InMatchBefore(i) /\ AbsentRun(sigLog, i) = streak_threshold)
    /\ (streak_threshold = 3 /\ sigLog = << TRUE, TRUE, FALSE, FALSE, FALSE >>)
         => inMatchLog = << TRUE, TRUE, TRUE, TRUE, FALSE >>
    /\ (streak_threshold = 3 /\ sigLog = << TRUE, FALSE, FALSE, TRUE >>)
         => inMatchLog = << TRUE, TRUE, TRUE, TRUE >>

C1_Witness ==
    /\ streak_threshold = 3
    /\ sigLog = << TRUE, TRUE, FALSE, FALSE, FALSE >>
    /\ ~in_match

\* C2: match_start_time is set to the clock's value exactly by the call that
\* moves NOT_IN_MATCH to IN_MATCH, and keeps that value on every later call
\* until the match ends; [False, True, True, False, False, False] with
\* threshold 3 gives in_match [False, True, True, True, True, False] and one
\* start time, set by the second call.
C2_StartTimeFixed ==
    /\ \A i \in 1..Len(sigLog) :
         /\ (~InMatchBefore(i) /\ sigLog[i])
              => (inMatchLog[i] /\ startLog[i] = Some(clockLog[i]))
         /\ (InMatchBefore(i) /\ inMatchLog[i]) => startLog[i] = startLog[i - 1]
         /\ ~inMatchLog[i] => startLog[i] = None
    /\ (streak_threshold = 3 /\ sigLog = << FALSE, TRUE, TRUE, FALSE, FALSE, FALSE >>)
         => /\ inMatchLog = << FALSE, TRUE, TRUE, TRUE, TRUE, FALSE >>
            /\ startLog = << None, Some(clockLog[2]), Some(clockLog[2]), Some(clockLog[2]),
                             Some(clockLog[2]), None >>

C2_Witness ==
    /\ streak_threshold = 3
    /\ sigLog = << FALSE, TRUE, TRUE, FALSE, FALSE, FALSE >>
    /\ clockLog[2] < clockLog[3]
    /\ clockLog[3] < clockLog[5]

\* The payload of this tick shows generic branding and "In Menu"
GenericInMenu == Generic(payload[1]) /\ payload[1].state = Some("In Menu")

\* C3 as stated: once in_match went from true to false, the next payload that
\* is built shows generic branding and "In Menu", whatever happened in between.
C3_NextPayloadGeneric ==
    (payload # NoPayload /\ built_after # "no") => GenericInMenu

\* C3 as amended: once in_match went from true to false, the next payload that
\* is built shows generic branding and "In Menu" if the tracker is still not in
\* a match when it is built.
C3_NextPayloadGenericWhileNotInMatch ==
    (payload # NoPayload /\ built_after # "no" /\ ~in_match) => GenericInMenu

C3_Witness ==
    /\ payload # NoPayload
    /\ built_after = "ended_with_character_earlier"
    /\ ~in_match
    /\ show_character

Elapsed == elapsed_seconds(Tracker, now)

\* C4: elapsed_seconds is None whenever the tracker is not in a match; while it
\* stays in a match it is non-negative and never decreases from one step to
\* the next.
C4_ElapsedMonotone ==
    /\ [](~in_match => Elapsed = None)
    /\ [](in_match => (Elapsed # None /\ Elapsed[1] >= 0))
    /\ [][(in_match /\ in_match') => Elapsed'[1] >= Elapsed[1]]_vars

C4_Witness == in_match /\ Elapsed = Some(1)

\* C5: an Exception raised inside a tick by the capture, the OCR or the tracker
\* reaches the handler and the loop goes on to sleep; a failed publish is
\* caught inside DiscordRPC.update and the tick goes on; after the sleep the
\* next tick starts; the loop is left only on a stop signal.
C5_TickExceptionsCaught ==
    /\ [][(raised' /\ ~raised) => pc' = "sleep"]_vars
    /\ [][(pub_result = "none" /\ pub_result' \in {"InvalidID", "error"})
            => pc' = "reconnect"]_vars
    /\ [][(pc = "sleep" /\ pc' # "sleep") => (pc' = "weapon" \/ stop' # "none")]_vars
    /\ [](pc \in {"finally", "done"} => stop # "none")

C5_Witness == raised /\ pc = "sleep" /\ stop = "none"

\* C6 as stated: a publish that fails with the invalid-session error marks the
\* connection unusable; every tick that starts with the connection unusable, or
\* makes it so, makes exactly one connect() attempt; the tick after a connect()
\* that succeeded publishes.
C6_OneAttemptEveryTick ==
    /\ (pc = "reconnect" /\ pub_result = "InvalidID") => ~connected
    /\ attempts <= 1
    /\ (pc = "sleep" /\ (~tick_connected \/ pub_result = "InvalidID")) => attempts = 1
    /\ (pc = "sleep" /\ resumed) => publishes = 1

\* C6 as amended: a publish that fails with the invalid-session error marks the
\* connection unusable; from then until a connect() succeeds, every tick that
\* reaches the reconnect step makes exactly one connect() attempt and a tick
\* that an Exception cuts short makes none; a tick that starts connected and
\* reaches the publish step publishes.
C6_OneAttemptEveryCompletedTick ==
    /\ (pc = "reconnect" /\ pub_result = "InvalidID") => ~connected
    /\ attempts <= 1
    /\ (pc = "sleep" /\ ~raised /\ (~tick_connected \/ pub_result = "InvalidID"))
         => attempts = 1
    /\ (pc = "sleep" /\ raised) => attempts = 0
    /\ (pc \in {"reconnect", "sleep"} /\ ~raised /\ tick_connected) => publishes = 1

C6_Witness ==
    /\ pc = "sleep"
    /\ ~tick_connected
    /\ ~raised
    /\ attempts = 1
    /\ connected

\* C7: on every exit path disconnect() has been called when the process ends,
\* and connected is false.
C7_DisconnectOnEveryExit ==
    pc = "done" => (disconnect_calls >= 1 /\ ~connected)

\* C8: the tick loop is never entered with a region that is missing or resolves
\* to a rectangle of non-positive width or height.
C8_NoTickWithInvalidGeometry ==
    pc \in TickPcs => GeometryValid

ValidRegion(r) == r.left < r.right /\ r.top < r.bottom

\* The edges of the box lie within [offset, offset + dimension]
InBounds(b, m) ==
    /\ m.left <= b.left
    /\ b.left + b.width <= m.left + m.width
    /\ m.top <= b.top
    /\ b.top + b.height <= m.top + m.height
    /\ b.left <= m.left + m.width
    /\ m.left <= b.left + b.width
    /\ b.top <= m.top + m.height
    /\ m.top <= b.top + b.height

C10_TimerIffStartAndOption ==
    payload # NoPayload =>
      IF match_start_time # None /\ show_timer
      THEN /\ payload[1].state = Some("In Match")
           /\ payload[1].start = Some(PyInt(match_start_time[1], Res))
      ELSE /\ payload[1].state = Some("In Menu")
           /\ payload[1].start = None

C10_Witness ==
    /\ payload # NoPayload
    /\ match_start_time # None
    /\ ~show_timer
    /\ payload[1].state = Some("In Menu")

\* The details DiscordRPC.update shows for character c
DetailsFor(c) ==
    IF TruthyStr(c) /\ show_character THEN Some("Playing as " \o c[1]) ELSE Some("In Game")

\* C11: a tick whose weapon reading is empty or resolves to no weapon leaves
\* current_character as it was before the reading; while the tracker is in a
\* match after the tick's update, the payload the tick publishes shows that
\* character.
C11_NoReadingKeepsCharacter ==
    /\ (held_before # << >> /\ pc = "match") => current_character = held_before[1]
    /\ (held_before # << >> /\ pc \in {"publish", "reconnect", "sleep"} /\ ~raised /\ in_match)
         => /\ current_character = held_before[1]
            /\ payload # NoPayload => payload[1].details = DetailsFor(held_before[1])

C11_Witness ==
    /\ held_before # << >>
    /\ held_before[1] # None
    /\ in_match
    /\ show_character
    /\ payload # NoPayload
    /\ payload[1].details = DetailsFor(held_before[1])

\* C12: once the inputs are missing on every tick while the presence of an
\* earlier match is displayed, the displayed presence eventually becomes the
\* generic "In Menu" one, unless the transport stops being connected.
C12_DegradesToMenu ==
    (inputs = "missing" /\ displayed = "match") ~> (~connected \/ displayed = "generic_menu")

\* C13: the operator's stop signal never cancels a tick part-way: it takes
\* effect only at the top of a tick, before the first step, or between ticks,
\* so every tick that has started runs all of its steps before shutdown.
C13_StopOnlyBetweenTicks ==
    [][(stop = "none" /\ stop' # "none" /\ pc \in TickPcs) => pc \in {"weapon", "sleep"}]_vars

\* Nothing of a tick has happened: no reading, no tracker update, no payload
NothingDone ==
    /\ Tracker = TrackerInit
    /\ current_character = None
    /\ payload = NoPayload
    /\ publishes = 0
    /\ displayed = "nothing"
    /\ held_before = << >>

\* C14: at startup the connection is acquired by a blocking retry loop: no
\* step of a tick happens before the first connect() that succeeds, a failed
\* attempt is followed by the delay and the delay by another attempt, and an
\* attempt that succeeds enters the tick loop with connected true.
C14_BlockingStartup ==
    /\ [](pc \in TickPcs => ever_connected)
    /\ [](~ever_connected => NothingDone)
    /\ [][(pc = "connect" /\ pc' # pc)
            => \/ connected' /\ pc' = "weapon" /\ tick_connected'
               \/ ~connected' /\ pc' = "retry_sleep"]_vars
    /\ [][(pc = "retry_sleep" /\ pc' # pc) => pc' = "connect"]_vars
    /\ (pc = "retry_sleep") ~> (pc = "connect")
    /\ [](ever_connected => pc \in TickPcs)

\* The retry loop about to make another attempt, after one that failed and
\* the delay, nothing of a tick having happened
C14_Witness ==
    /\ pc = "connect"
    /\ rpc # None
    /\ ~connected
    /\ ~ever_connected
    /\ NothingDone

\* C15: rpc.update is never called while connected is false: DiscordRPC.update
\* then returns without building a payload and without changing any state, so a
\* tick that starts with the connection marked unusable publishes nothing; and
\* no tick calls rpc.update more than once.
C15_NoPublishWhileUnusable ==
    /\ [][publishes' > publishes => connected /\ rpc # None]_vars
    /\ [][(pc = "publish" /\ ~connected /\ pc' = "reconnect")
            => UNCHANGED << payload, pub_result, publishes, displayed, discordVars,
                            trackerVars, current_character, clear_pending, built_after >>]_vars
    /\ []((pc \in TickPcs /\ ~tick_connected) => (publishes = 0 /\ payload = NoPayload))
    /\ [](publishes <= 1)

\* A tick past its publish step after an invalid-session failure of an
\* earlier tick and a failed reconnect: nothing was published
C15_Witness ==
    /\ pc = "reconnect"
    /\ ever_connected
    /\ ~tick_connected
    /\ ~connected
    /\ publishes = 0
    /\ payload = NoPayload
    /\ displayed # "nothing"

\* C16: after any sequence of update calls with threshold N >= 1, in_match is
\* true if and only if match_start_time is set; outside a match the streak
\* counter is 0 and the whole state is the initial one, which is the state a
\* match's end leaves; in a match the counter is in 0..N-1; and an
\* objective-absent call outside a match changes nothing.
C16_MatchStateInvariant ==
    /\ [](in_match <=> match_start_time # None)
    /\ [](~in_match => no_objective_streak = 0)
    /\ [](in_match => no_objective_streak \in 0..(streak_threshold - 1))
    /\ [](~in_match => Tracker = TrackerInit)
    /\ [][(Len(sigLog') = Len(sigLog) + 1 /\ ~sigLog'[Len(sigLog')] /\ ~in_match)
            => UNCHANGED trackerVars]_vars

\* A match that has just ended at the N-th absent call, N > 1
C16_Witness ==
    /\ Len(sigLog) >= 2
    /\ InMatchBefore(Len(sigLog))
    /\ AbsentRun(sigLog, Len(sigLog)) = streak_threshold
    /\ streak_threshold > 1
    /\ ~in_match
    /\ Tracker = TrackerInit

\* The payload names a character: details "Playing as X"
NamesCharacter(p) == \E c \in Characters : p.details = Some("Playing as " \o c)

\* C17: every payload handed to the transport agrees with the tracker at
\* publish time: a payload that names a character or has state "In Match" is
\* published only in a tick where tracker.in_match is true.
C17_PayloadAgreesWithTracker ==
    (payload # NoPayload /\ (NamesCharacter(payload[1]) \/ payload[1].state = Some("In Match")))
        => in_match

\* A payload naming a character, with state "In Match", handed to the transport
C17_Witness ==
    /\ pc = "reconnect"
    /\ publishes = 1
    /\ NamesCharacter(payload[1])
    /\ payload[1].state = Some("In Match")
    /\ in_match

\* C19 as stated: a publish that fails with an error other than the
\* invalid-session one leaves connected true and the handle in place, the tick
\* makes no connect() attempt, and the next tick calls rpc.update again; only
\* the invalid-session error makes a tick that started connected unconnected.
C19_ErrorKeepsConnection ==
    /\ (pc \in {"reconnect", "sleep"} /\ pub_result = "error")
         => (connected /\ rpc # None /\ attempts = 0)
    /\ (pc \in TickPcs /\ after_error) => (tick_connected /\ rpc # None)
    /\ (pc = "sleep" /\ after_error) => publishes = 1
    /\ (pc = "reconnect" /\ tick_connected /\ ~connected) => pub_result = "InvalidID"

\* C19 as amended: as above, the next tick calling rpc.update again if it
\* reaches its publish step, and not if an Exception cuts it short before.
C19_ErrorKeepsConnectionIfReached ==
    /\ (pc \in {"reconnect", "sleep"} /\ pub_result = "error")
         => (connected /\ rpc # None /\ attempts = 0)
    /\ (pc \in TickPcs /\ after_error) => (tick_connected /\ rpc # None)
    /\ (pc \in {"reconnect", "sleep"} /\ after_error /\ ~raised) => publishes = 1
    /\ (pc = "sleep" /\ after_error /\ raised) => publishes = 0
    /\ (pc = "reconnect" /\ tick_connected /\ ~connected) => pub_result = "InvalidID"

\* The tick after a failed publish has called rpc.update again
C19_Witness ==
    /\ pc = "reconnect"
    /\ after_error
    /\ publishes = 1
    /\ connected

\* C18: transport outcomes do not influence match tracking: two runs fed the
\* same per-tick capture and OCR results, with outcomes of publish and connect
\* of their own, have the same MatchState and the same current_character
\* after every tick.
C18_TrackingBlindToTransport ==
    /\ run2.tracker = Tracker
    /\ run2.character = current_character

\* The two runs differ in their connection state after a tick, in a match
\* with a character resolved
C18_Witness ==
    /\ pc = "pair"
    /\ run2.connected # connected
    /\ in_match
    /\ current_character # None
    /\ run2.tracker = Tracker
    /\ run2.character = current_character

====
